---- MODULE Spec2Model ----
(***************************************************************************)
(* r2: a content-addressed backup store for single files (src/main.py).    *)
(*                                                                         *)
(* The state is what survives between two invocations of the program: the *)
(* storage root ~/.r2, the files on disk (the live source files and the    *)
(* Registry document defs.json) and the blobs of ~/.r2/store.  Every       *)
(* invocation runs one operation to its end (a return, a sys.exit or an    *)
(* uncaught exception), so every operation is one action; what it wrote    *)
(* before it failed stays written.  An operation is an operator from the   *)
(* file system w and its arguments to the file system it leaves (w) and    *)
(* the message it returns or the error that ends it (out).                 *)
(***************************************************************************)
EXTENDS Integers, Sequences, FiniteSets, TLC

(***************************************************************************)
(* Bounds of the model.                                                    *)
(***************************************************************************)
\* invocations of the program in one behaviour
MaxInvocations == 5

\* invocations in one behaviour of the specification of two user Entries
MaxUserInvocations == 4

\* invocations in one behaviour of the specification with links
MaxLinkInvocations == 5

\* invocations in one behaviour of the specification with aborted invocations
MaxCrashInvocations == 4

\* invocations that run alone before the two concurrent ones
MaxRaceInvocations == 2

(***************************************************************************)
(* Paths, names and file contents.                                         *)
(***************************************************************************)
\* A path is its directory, its stem and its suffix (pathlib's Path.stem and
\* Path.suffix).  DefsFile is the DEFS of the source, ~/.r2/defs.json.
DefsFile == [dir |-> "~/.r2", stem |-> "defs", suffix |-> ".json"]

UserPaths ==
  { [dir |-> "/a", stem |-> "notes", suffix |-> ".txt"],
    [dir |-> "/b", stem |-> "notes", suffix |-> ".txt"] }

\* BIN / "notes", where install_file puts the file tracked as "notes"
BinFile == [dir |-> "~/.r2/bin", stem |-> "notes", suffix |-> ""]

Paths == UserPaths \cup {DefsFile, BinFile}

\* A tracked name is a string.  The strings that occur are the plain ones,
\* and those quick_add formats as f"{base_name}-{counter}{extension}": a name
\* is the triple the string is formatted from (n = 0: the plain string base).
PlainName(s) == [base |-> s, n |-> 0, ext |-> ""]

NumberedName(base_name, counter, extension) ==
  [base |-> base_name, n |-> counter, ext |-> extension]

DefsName == PlainName("defs")

\* The names of the model: the ones a user passes to --add, --restore,
\* --remove and --prune, and the ones quick_add may choose.
Names == { DefsName, PlainName("notes") }

\* The texts a user writes into a live file.
Texts == {1, 2}

\* The bytes of a file: text a user wrote (n says which), or a Registry
\* document (doc: the ordered name -> Entry mapping json.dumps serialises).
\* NoFile stands for a path at which no file exists.
NoFile == [kind |-> "missing", n |-> 0, doc |-> <<>>]

\* What open(filename, "w") leaves before anything is written: an empty file.
EmptyFile == [kind |-> "empty", n |-> 0, doc |-> <<>>]

\* What symlink_to(STORE / hash_value) leaves at a path: a symbolic link to
\* the blob file of that name (doc holds the name).
SymlinkTo(hash_value) == [kind |-> "symlink", n |-> 0, doc |-> <<hash_value>>]

IsSymlink(file) == file.kind = "symlink"

LinkTarget(file) == file.doc[1]

UserContent(c) == [kind |-> "file", n |-> c, doc |-> <<>>]

\* json.dumps(defs, indent=4): same mapping in the same order, same bytes.
JsonDumps(defs) == [kind |-> "json", n |-> 0, doc |-> defs]

\* hashlib.sha256 of the bytes: the digest names the bytes it was computed
\* from, and two different byte strings get two different digests.
Sha256(bytes) == [sha256 |-> bytes]

\* dict assignment d[k] = v
Put(d, k, v) == [x \in (DOMAIN d) \cup {k} |-> IF x = k THEN v ELSE d[x]]

Range(d) == { d[x] : x \in DOMAIN d }

EmptyDict == [x \in {} |-> 0]

\* The keys of a JSON object are strings: json.dumps writes the int key
\* new_gen as str(new_gen), and the code looks generations up by
\* str(generation).
Str(i) == ToString(i)

\* int(key) of a generation key, as list_file_history parses it.
IntOf(key) == CHOOSE i \in 0..(MaxInvocations + 1) : Str(i) = key

(***************************************************************************)
(* The state.                                                              *)
(***************************************************************************)
VARIABLES
  r2dir,    \* whether the directory ~/.r2 (with store/ and bin/) exists
  files,    \* path -> bytes of the file there, or NoFile
  store,    \* ~/.r2/store: blob file name (a digest) -> bytes of the blob
  invocations,  \* how many times the program has been run
  running   \* process -> where an invocation in progress is, and what it holds

vars == <<r2dir, files, store, invocations, running>>

\* The file system an operation works on.
World == [r2dir |-> r2dir, files |-> files, store |-> store]

(***************************************************************************)
(* Reading the Registry.                                                   *)
(***************************************************************************)
\* path.exists(): a symbolic link exists when the blob it points to does
Exists(w, path) ==
  IF IsSymlink(w.files[path])
  THEN LinkTarget(w.files[path]) \in DOMAIN w.store
  ELSE w.files[path].kind # "missing"

\* open(path, 'rb').read(), for a path that exists: a symbolic link is read
\* through, the bytes are those of the blob it points to
BytesAt(w, path) ==
  IF IsSymlink(w.files[path])
  THEN w.store[LinkTarget(w.files[path])]
  ELSE w.files[path]

\* open(path, 'wb').write(bytes): a symbolic link is written through, into the
\* blob file it points to (which is created when it is not there)
WriteAt(w, path, bytes) ==
  IF IsSymlink(w.files[path])
  THEN [w EXCEPT !.store = Put(w.store, LinkTarget(w.files[path]), bytes)]
  ELSE [w EXCEPT !.files = [w.files EXCEPT ![path] = bytes]]

\* hash_file(path), for a path that exists
hash_file(w, path) == Sha256(BytesAt(w, path))

\* load_defs: "" when the document loads, else how the invocation ends.
LoadError(w) ==
  IF ~Exists(w, DefsFile) THEN "fatal: Definitions file not found"
  ELSE IF w.files[DefsFile].kind # "json" THEN "JSONDecodeError"
  ELSE ""

load_defs(w) == w.files[DefsFile].doc

\* file_overwrite that merges: the Entries that the document on disk
\* has and defs has not (another process saved them since the load) are kept.
file_overwrite_merged(w, defs) ==
  LET disk == IF LoadError(w) = "" THEN load_defs(w) ELSE <<>>
      kept == SelectSeq(disk, LAMBDA file_info :
                ~\E i \in 1..Len(defs) : defs[i].name = file_info.name)
  IN [w EXCEPT !.files = [w.files EXCEPT ![DefsFile] = JsonDumps(defs \o kept)]]

\* file_overwrite(DEFS, json.dumps(defs, indent=4))
file_overwrite(w, defs) ==
  [w EXCEPT !.files = [w.files EXCEPT ![DefsFile] = JsonDumps(defs)]]

\* name in defs
Tracked(defs, name) == \E i \in 1..Len(defs) : defs[i].name = name

IndexOf(defs, name) == CHOOSE i \in 1..Len(defs) : defs[i].name = name

\* defs[name]
EntryOf(defs, name) == defs[IndexOf(defs, name)]

get_default_def(name, path) ==
  [name |-> name, path |-> path, latest |-> 0, generations |-> EmptyDict]

\* get_latest_gen(filename), for a tracked name
get_latest_gen(w, filename) == EntryOf(load_defs(w), filename).latest

\* get_file_at_gen: whether the lookup generations[str(generation)] succeeds,
\* and the blob name it gives
HasGen(defs, filename, generation) ==
  Str(generation) \in DOMAIN EntryOf(defs, filename).generations

get_file_at_gen(filename, generation, defs) ==
  EntryOf(defs, filename).generations[Str(generation)]

\* diff(filename, generation): "match" (True), "differ" (False), or how the
\* invocation ends.
diff(w, filename, generation) ==
  IF LoadError(w) # "" THEN LoadError(w)
  ELSE LET defs == load_defs(w) IN
    IF ~Tracked(defs, filename) THEN "fatal: File does not exist"
    ELSE IF ~HasGen(defs, filename, generation) THEN "KeyError"
    ELSE IF ~Exists(w, EntryOf(defs, filename).path) THEN "FileNotFoundError"
    ELSE IF hash_file(w, EntryOf(defs, filename).path)
              = get_file_at_gen(filename, generation, defs)
         THEN "match" ELSE "differ"

(***************************************************************************)
(* build_generation: one new generation for every Entry of defs whose live *)
(* file exists, in the order of the mapping.                               *)
(***************************************************************************)
\* build_entry with a slip: the generation is recorded, latest is left alone.
build_entry_stale_latest(file_info, hash_value) ==
  [file_info EXCEPT
     !.generations = Put(file_info.generations, Str(file_info.latest + 1), hash_value)]

\* build_entry with a slip: the hash is recorded over the latest generation
\* (its number taken before the increment), no new number is assigned.
build_entry_overwrite(file_info, hash_value) ==
  LET new_gen == IF file_info.latest = 0 THEN 1 ELSE file_info.latest
  IN [file_info EXCEPT
        !.latest = new_gen,
        !.generations = Put(file_info.generations, Str(new_gen), hash_value)]

\* latest + 1 becomes the Entry's latest and maps to the hash of the live file
build_entry(file_info, hash_value) ==
  LET new_gen == file_info.latest + 1
  IN [file_info EXCEPT
        !.latest = new_gen,
        !.generations = Put(file_info.generations, Str(new_gen), hash_value)]

\* copy_to_store with a slip: the blob file is named after the hash and the
\* path it was copied from, one blob per source file.
copy_to_store_per_path(w, hash_value, path) ==
  LET store_location == [sha256 |-> hash_value.sha256, of |-> path]
  IN IF store_location \in DOMAIN w.store THEN w
     ELSE [w EXCEPT !.store = Put(w.store, store_location, BytesAt(w, path))]

\* shutil.copy2(path, STORE / hash_value), unless that blob exists
copy_to_store(w, hash_value, path) ==
  IF hash_value \in DOMAIN w.store THEN w
  ELSE [w EXCEPT !.store = Put(w.store, hash_value, BytesAt(w, path))]

RECURSIVE build_from(_, _, _)
build_from(i, defs, w) ==
  IF i > Len(defs) THEN [defs |-> defs, w |-> w]
  ELSE LET file_info == defs[i]
           path == file_info.path
       IN IF ~Exists(w, path) THEN build_from(i + 1, defs, w)
          ELSE LET hash_value == hash_file(w, path)
               IN build_from(i + 1,
                             [defs EXCEPT ![i] = build_entry(file_info, hash_value)],
                             copy_to_store(w, hash_value, path))

build_generation(defs, w) == build_from(1, defs, w)

(***************************************************************************)
(* add_file(name, path)                                                    *)
(***************************************************************************)
\* add_file with a slip: the live file is not compared with the last backup,
\* every add builds.
add_file_always_builds(w, name, path) ==
  IF ~Exists(w, path) THEN [w |-> w, out |-> "fatal: No such path"]
  ELSE IF LoadError(w) # "" THEN [w |-> w, out |-> LoadError(w)]
  ELSE LET defs == load_defs(w)
           updated == IF Tracked(defs, name) THEN defs
                      ELSE Append(defs, get_default_def(name, path))
           b == build_generation(updated, w)
       IN [w |-> file_overwrite(b.w, b.defs), out |-> "Added"]

add_file(w, name, path) ==
  IF ~Exists(w, path) THEN [w |-> w, out |-> "fatal: No such path"]
  ELSE IF LoadError(w) # "" THEN [w |-> w, out |-> LoadError(w)]
  ELSE LET defs == load_defs(w)
           fresh == ~Tracked(defs, name)
           same == IF fresh THEN "differ"
                   ELSE diff(w, name, get_latest_gen(w, name))
           updated == IF fresh THEN Append(defs, get_default_def(name, path))
                      ELSE defs
           b == build_generation(updated, w)
       IN IF same = "match" THEN [w |-> w, out |-> "Not added"]
          ELSE IF same # "differ" THEN [w |-> w, out |-> same]
          ELSE [w |-> file_overwrite(b.w, b.defs), out |-> "Added"]

(***************************************************************************)
(* garbage_collect(): unlink every file of the store whose name is not a   *)
(* hash of some generation of some Entry.                                  *)
(***************************************************************************)
valid_hashes(defs) ==
  UNION { Range(defs[i].generations) : i \in 1..Len(defs) }

garbage_collect(w) ==
  IF LoadError(w) # "" THEN [w |-> w, out |-> LoadError(w), deleted |-> 0]
  ELSE LET valid == valid_hashes(load_defs(w))
           kept == (DOMAIN w.store) \cap valid
       IN [w |-> [w EXCEPT !.store = [h \in kept |-> w.store[h]]],
           out |-> "Garbage collection complete",
           deleted |-> Cardinality((DOMAIN w.store) \ valid)]

(***************************************************************************)
(* remove_file(filename)                                                   *)
(***************************************************************************)
\* del defs[filename]
Without(defs, filename) ==
  SelectSeq(defs, LAMBDA file_info : file_info.name # filename)

remove_file(w, filename) ==
  IF LoadError(w) # "" THEN [w |-> w, out |-> LoadError(w), deleted |-> 0]
  ELSE LET defs == load_defs(w) IN
    IF ~Tracked(defs, filename)
    THEN [w |-> w, out |-> "fatal: File does not exist", deleted |-> 0]
    ELSE LET gc == garbage_collect(file_overwrite(w, Without(defs, filename)))
         IN [w |-> gc.w, out |-> "Removed", deleted |-> gc.deleted]

(***************************************************************************)
(* prune(filename, all_files)                                              *)
(***************************************************************************)
\* One Entry of the loop: every generation but the one at latest is dropped.
PruneEntry(file_info) ==
  LET latest_gen == Str(file_info.latest)
      latest_hash == file_info.generations[latest_gen]
  IN [file_info EXCEPT !.generations = Put(EmptyDict, latest_gen, latest_hash)]

prune(w, filename, all_files) ==
  IF LoadError(w) # "" THEN [w |-> w, out |-> LoadError(w), count |-> 0]
  ELSE LET defs == load_defs(w) IN
    IF ~all_files /\ ~Tracked(defs, filename)
    THEN [w |-> w, out |-> "fatal: File does not exist", count |-> 0]
    ELSE LET files_to_prune ==
               { i \in 1..Len(defs) : all_files \/ defs[i].name = filename }
             \* file_info['generations'][latest_gen] raises on an Entry
             \* without a generation at latest, before anything is saved
             raises == \E i \in files_to_prune :
                          Str(defs[i].latest) \notin DOMAIN defs[i].generations
             pruned == [i \in 1..Len(defs) |->
                          IF i \in files_to_prune THEN PruneEntry(defs[i])
                          ELSE defs[i]]
             RECURSIVE Old(_)
             Old(i) == IF i > Len(defs) THEN 0
                       ELSE Old(i + 1)
                            + (IF i \in files_to_prune
                               THEN Cardinality(DOMAIN defs[i].generations) - 1
                               ELSE 0)
         IN IF raises THEN [w |-> w, out |-> "KeyError", count |-> 0]
            ELSE [w |-> garbage_collect(file_overwrite(w, pruned)).w,
                  out |-> "Pruned", count |-> Old(1)]

(***************************************************************************)
(* restore(filename, generation, backup_first)                             *)
(***************************************************************************)
restore(w, filename, generation, backup_first) ==
  IF LoadError(w) # "" THEN [w |-> w, out |-> LoadError(w)]
  ELSE LET defs == load_defs(w) IN
    IF ~Tracked(defs, filename) THEN [w |-> w, out |-> "KeyError"]
    ELSE LET path == EntryOf(defs, filename).path
             backup == IF backup_first THEN add_file(w, filename, path)
                       ELSE [w |-> w, out |-> "Not added"]
             \* the blob is looked up in the defs loaded before the backup
             blob == get_file_at_gen(filename, generation, defs)
         IN IF backup.out \notin {"Added", "Not added"} THEN backup
            ELSE IF ~HasGen(defs, filename, generation)
                 THEN [w |-> backup.w, out |-> "KeyError"]
            ELSE IF blob \notin DOMAIN backup.w.store
                 THEN [w |-> backup.w, out |-> "FileNotFoundError"]
            \* shutil.copy2 refuses to copy a file onto itself
            ELSE IF IsSymlink(backup.w.files[path])
                      /\ LinkTarget(backup.w.files[path]) = blob
                 THEN [w |-> backup.w, out |-> "SameFileError"]
            ELSE [w |-> WriteAt(backup.w, path, backup.w.store[blob]),
                  out |-> "Restored"]

(***************************************************************************)
(* quick_add(filename)                                                     *)
(***************************************************************************)
\* new_name_from with a slip: an if where the code has a while, the first
\* numbered name is taken whether it is tracked or not.
new_name_from_once(defs, base_name, extension, new_name, counter) ==
  IF Tracked(defs, new_name)
  THEN NumberedName(base_name, counter, extension)
  ELSE new_name

\* while new_name in defs: new_name = f"{base_name}-{counter}{extension}"
RECURSIVE new_name_from(_, _, _, _, _)
new_name_from(defs, base_name, extension, new_name, counter) ==
  IF Tracked(defs, new_name)
  THEN new_name_from(defs, base_name, extension,
                     NumberedName(base_name, counter, extension), counter + 1)
  ELSE new_name

quick_name(defs, path) ==
  new_name_from(defs, path.stem, path.suffix, PlainName(path.stem), 1)

quick_add(w, path) ==
  IF ~Exists(w, path) THEN [w |-> w, out |-> "fatal: No such file"]
  ELSE IF LoadError(w) # "" THEN [w |-> w, out |-> LoadError(w)]
  ELSE LET added == add_file(w, quick_name(load_defs(w), path), path)
       IN IF added.out \in {"Added", "Not added"}
          THEN [w |-> added.w, out |-> "Added file"]
          ELSE added

(***************************************************************************)
(* link_file(filename, target_path) and install_file(filename)             *)
(***************************************************************************)
\* A symbolic link whose blob is gone.
Dangling(w, path) == IsSymlink(w.files[path]) /\ ~Exists(w, path)

\* link_file, for a target that is no dangling link (resolve() follows the
\* links of the target path before exists() is asked)
link_file(w, filename, target) ==
  IF LoadError(w) # "" THEN [w |-> w, out |-> LoadError(w)]
  ELSE LET defs == load_defs(w) IN
    IF ~Tracked(defs, filename) THEN [w |-> w, out |-> "fatal: File does not exist"]
    ELSE IF Exists(w, target) THEN [w |-> w, out |-> "fatal: Target path already exists"]
    ELSE IF ~HasGen(defs, filename, get_latest_gen(w, filename))
         THEN [w |-> w, out |-> "KeyError"]
    ELSE LET source == get_file_at_gen(filename, get_latest_gen(w, filename), defs)
         IN [w |-> [w EXCEPT !.files = [w.files EXCEPT ![target] = SymlinkTo(source)]],
             out |-> "Linked"]

\* install_file(filename), of the file tracked as "notes": the link is made
\* at BIN / "notes" (the mode bits chmod sets on the blob are not modelled)
install_file(w, filename) ==
  IF LoadError(w) # "" THEN [w |-> w, out |-> LoadError(w)]
  ELSE LET defs == load_defs(w) IN
    IF ~Tracked(defs, filename) THEN [w |-> w, out |-> "fatal: File does not exist"]
    ELSE IF ~HasGen(defs, filename, get_latest_gen(w, filename))
         THEN [w |-> w, out |-> "KeyError"]
    ELSE IF Exists(w, BinFile) THEN [w |-> w, out |-> "fatal: File already exists in bin"]
    ELSE IF IsSymlink(w.files[BinFile]) THEN [w |-> w, out |-> "FileExistsError"]
    ELSE LET source == get_file_at_gen(filename, get_latest_gen(w, filename), defs)
             linked == [w EXCEPT !.files = [w.files EXCEPT ![BinFile] = SymlinkTo(source)]]
         IN \* target.chmod follows the link
            IF source \notin DOMAIN w.store
            THEN [w |-> linked, out |-> "FileNotFoundError"]
            ELSE [w |-> linked, out |-> "Installed"]

(***************************************************************************)
(* init()                                                                  *)
(***************************************************************************)
init(w) ==
  IF w.r2dir THEN [w |-> w, out |-> "fatal: already exists"]
  ELSE LET made == [w EXCEPT !.r2dir = TRUE]
           written == file_overwrite(made, <<get_default_def(DefsName, DefsFile)>>)
           added == add_file(written, DefsName, DefsFile)
       IN IF added.out \in {"Added", "Not added"}
          THEN [w |-> added.w, out |-> "Initiated"]
          ELSE added

(***************************************************************************)
(* The invocations.                                                        *)
(***************************************************************************)
NoName == PlainName("")

\* The model follows the program for MaxInvocations invocations.
MayRun == invocations < MaxInvocations

\* The end of an invocation that leaves the file system w.
Finish(w) ==
  /\ invocations' = invocations + 1
  /\ r2dir' = w.r2dir
  /\ files' = w.files
  /\ store' = w.store
  /\ UNCHANGED running

\* The Registry on disk, when there is one.
Registry == IF LoadError(World) = "" THEN load_defs(World) ELSE <<>>

\* The generation numbers a user passes to --diff and --restore.
Gens == 0..MaxInvocations

\* The two processes that may run at the same time.
Procs == {1, 2}

\* A process that has not been started: no operation, nothing loaded.
Idle ==
  [pc |-> "idle", op |-> "", name |-> NoName, path |-> DefsFile,
   loaded |-> <<>>, defs |-> <<>>, i |-> 0,
   valid |-> {}, todo |-> {}, deleted |-> {}, out |-> ""]

Init ==
  /\ r2dir = FALSE
  /\ files = [p \in Paths |-> NoFile]
  /\ store = EmptyDict
  /\ invocations = 0
  /\ running = [p \in Procs |-> Idle]

\* r2 --init
RunInit ==
  /\ MayRun
  /\ Finish(init(World).w)

\* r2 --add <name> <path>; the Registry document itself is added as "defs",
\* as init adds it
Add ==
  \E name \in Names, path \in Paths :
    /\ MayRun
    /\ (name = DefsName) = (path = DefsFile)
    /\ Finish(add_file(World, name, path).w)

\* r2 --quick-add <file>, while the name it chooses is one of Names
QuickAdd ==
  \E path \in UserPaths :
    /\ MayRun
    /\ quick_name(Registry, path) \in Names
    /\ Finish(quick_add(World, path).w)

\* r2 --diff <file> <generation>: prints, and changes nothing
Diff ==
  \E name \in Names, gen \in Gens :
    /\ diff(World, name, gen) \in {"match", "differ"}
    /\ UNCHANGED vars

\* r2 --restore <file> <generation> [-n]
Restore ==
  \E name \in Names, gen \in Gens, backup_first \in BOOLEAN :
    /\ MayRun
    /\ Finish(restore(World, name, gen, backup_first).w)

\* remove_file(<file>), the operation itself (main's --remove branch reads
\* args.delete, which argparse never sets, and ends before it calls it)
Remove ==
  \E name \in Names :
    /\ MayRun
    /\ Finish(remove_file(World, name).w)

\* r2 --gc
GarbageCollect ==
  /\ MayRun
  /\ Finish(garbage_collect(World).w)

\* r2 --prune <file>
Prune ==
  \E name \in Names :
    /\ MayRun
    /\ Finish(prune(World, name, FALSE).w)

\* r2 --prune
PruneAll ==
  /\ MayRun
  /\ Finish(prune(World, NoName, TRUE).w)

\* The user writes a live file, between two invocations.
UserEdit ==
  \E path \in UserPaths, text \in Texts :
    /\ files' = [files EXCEPT ![path] = UserContent(text)]
    /\ UNCHANGED <<r2dir, store, invocations, running>>

\* The user deletes a live file.
UserDelete ==
  \E path \in UserPaths :
    /\ files' = [files EXCEPT ![path] = NoFile]
    /\ UNCHANGED <<r2dir, store, invocations, running>>

Next ==
  \/ RunInit
  \/ Add
  \/ QuickAdd
  \/ Diff
  \/ Restore
  \/ Remove
  \/ GarbageCollect
  \/ Prune
  \/ PruneAll
  \/ UserEdit
  \/ UserDelete

Spec == Init /\ [][Next]_vars

(***************************************************************************)
(* Two user Entries: the invocations that track user files alone, under    *)
(* the names a user passes and the ones quick_add chooses by itself.  The  *)
(* user writes the files and deletes none.                                 *)
(***************************************************************************)
\* The names of user files: "notes" and the first one quick_add formats.
UserNames == { PlainName("notes"), NumberedName("notes", 1, ".txt") }

\* The specification of two user Entries follows the program for
\* MaxUserInvocations invocations.
MayRunUser == invocations < MaxUserInvocations

\* r2 --init, before the user files are tracked
InitUser ==
  /\ MayRunUser
  /\ Finish(init(World).w)

\* r2 --gc
GarbageCollectUser ==
  /\ MayRunUser
  /\ Finish(garbage_collect(World).w)

\* r2 --add <name> <path> of a user file
AddUser ==
  \E name \in UserNames, path \in UserPaths :
    /\ MayRunUser
    /\ Finish(add_file(World, name, path).w)

\* r2 --quick-add <file>, whatever name it chooses
QuickAddUser ==
  \E path \in UserPaths :
    /\ MayRunUser
    /\ Finish(quick_add(World, path).w)

\* remove_file(<file>) of a user file
RemoveUser ==
  \E name \in UserNames :
    /\ MayRunUser
    /\ Finish(remove_file(World, name).w)

NextUsers ==
  \/ InitUser
  \/ AddUser
  \/ QuickAddUser
  \/ RemoveUser
  \/ GarbageCollectUser
  \/ UserEdit

SpecUsers == Init /\ [][NextUsers]_vars

(***************************************************************************)
(* Links: the invocations on one user Entry, "notes", with --link and      *)
(* --install, which put symbolic links to blobs at paths of the user.      *)
(***************************************************************************)
Notes == PlainName("notes")

MayRunLinks == invocations < MaxLinkInvocations

\* r2 --init
InitLinks ==
  /\ MayRunLinks
  /\ Finish(init(World).w)

\* r2 --add notes <path>
AddNotes ==
  \E path \in UserPaths :
    /\ MayRunLinks
    /\ Finish(add_file(World, Notes, path).w)

\* r2 --link notes <target>
LinkNotes ==
  \E target \in UserPaths :
    /\ MayRunLinks
    /\ ~Dangling(World, target)
    /\ Finish(link_file(World, Notes, target).w)

\* r2 --install notes
InstallNotes ==
  /\ MayRunLinks
  /\ Finish(install_file(World, Notes).w)

\* r2 --restore notes <generation> [-n]
RestoreNotes ==
  \E gen \in Gens, backup_first \in BOOLEAN :
    /\ MayRunLinks
    /\ Finish(restore(World, Notes, gen, backup_first).w)

\* r2 --prune notes
PruneNotes ==
  /\ MayRunLinks
  /\ Finish(prune(World, Notes, FALSE).w)

NextLinks ==
  \/ InitLinks
  \/ AddNotes
  \/ LinkNotes
  \/ InstallNotes
  \/ RestoreNotes
  \/ PruneNotes
  \/ UserEdit
  \/ UserDelete

SpecLinks == Init /\ [][NextLinks]_vars

(***************************************************************************)
(* Aborted invocations.  An operation changes the file system in steps:    *)
(* one copy into the store for each blob, the open that empties a file and *)
(* the write that fills it, one unlink for each blob collected.  An        *)
(* invocation that is aborted between two steps leaves the file system as  *)
(* the steps before left it.                                               *)
(***************************************************************************)
\* file_overwrite(DEFS, ...): after open(filename, "w"), and after f.write
save_steps(w, defs) ==
  << [w EXCEPT !.files = [w.files EXCEPT ![DefsFile] = EmptyFile]],
     file_overwrite(w, defs) >>

\* build_generation: the file system after each copy into the store
RECURSIVE build_steps_from(_, _, _)
build_steps_from(i, defs, w) ==
  IF i > Len(defs) THEN <<>>
  ELSE LET path == defs[i].path
       IN IF ~Exists(w, path) THEN build_steps_from(i + 1, defs, w)
          ELSE LET copied == copy_to_store(w, hash_file(w, path), path)
               IN (IF copied = w THEN <<>> ELSE <<copied>>)
                    \o build_steps_from(i + 1, defs, copied)

\* The file systems a sequence of steps may leave, from w.
LeftBy(w, steps) == {w} \cup { steps[i] : i \in 1..Len(steps) }

\* add_file: the copies of build_generation, then the save
add_file_steps(w, name, path) ==
  IF add_file(w, name, path).out # "Added" THEN <<>>
  ELSE LET defs == load_defs(w)
           updated == IF Tracked(defs, name) THEN defs
                      ELSE Append(defs, get_default_def(name, path))
           b == build_generation(updated, w)
       IN build_steps_from(1, updated, w) \o save_steps(b.w, b.defs)

add_file_aborted(w, name, path) == LeftBy(w, add_file_steps(w, name, path))

quick_add_aborted(w, path) ==
  IF quick_add(w, path).out # "Added file" THEN {w}
  ELSE add_file_aborted(w, quick_name(load_defs(w), path), path)

\* garbage_collect: the unlinks come in the order of STORE.iterdir(), which is
\* any order; any set of the unreferenced blobs may be gone
garbage_collect_aborted(w) ==
  IF LoadError(w) # "" THEN {w}
  ELSE LET unused == (DOMAIN w.store) \ valid_hashes(load_defs(w))
       IN { [w EXCEPT !.store = [h \in (DOMAIN w.store) \ gone |-> w.store[h]]] :
              gone \in SUBSET unused }

\* prune: the save of the pruned Registry, then garbage_collect
prune_aborted(w, filename, all_files) ==
  LET r == prune(w, filename, all_files)
      saving == save_steps(w, load_defs(r.w))
  IN IF r.out # "Pruned" THEN {w}
     ELSE LeftBy(w, saving) \cup garbage_collect_aborted(saving[2])

\* remove_file: the save of the Registry without the Entry, then garbage_collect
remove_file_aborted(w, filename) ==
  LET r == remove_file(w, filename)
      saving == save_steps(w, load_defs(r.w))
  IN IF r.out # "Removed" THEN {w}
     ELSE LeftBy(w, saving) \cup garbage_collect_aborted(saving[2])

\* restore: the backup add, then shutil.copy2 onto the live file (the open
\* that empties it, the write that fills it)
restore_aborted(w, filename, generation, backup_first) ==
  LET r == restore(w, filename, generation, backup_first)
      defs == load_defs(w)
      path == EntryOf(defs, filename).path
      backup == IF backup_first THEN add_file(w, filename, path).w ELSE w
  IN IF LoadError(w) # "" \/ ~Tracked(defs, filename) THEN {w}
     ELSE (IF backup_first THEN add_file_aborted(w, filename, path) ELSE {w})
            \cup (IF r.out = "Restored"
                  THEN { WriteAt(backup, path, EmptyFile), r.w }
                  ELSE { r.w })

MayRunCrash == invocations < MaxCrashInvocations

\* r2 --init
InitCrash ==
  /\ MayRunCrash
  /\ Finish(init(World).w)

\* r2 --gc
GarbageCollectCrash ==
  /\ MayRunCrash
  /\ Finish(garbage_collect(World).w)

\* r2 --add <name> <path>, run to its end or aborted
AddAborted ==
  \E name \in Names, path \in Paths :
    /\ MayRunCrash
    /\ (name = DefsName) = (path = DefsFile)
    /\ \E left \in add_file_aborted(World, name, path) : Finish(left)

\* r2 --quick-add <file>, run to its end or aborted
QuickAddAborted ==
  \E path \in UserPaths :
    /\ MayRunCrash
    /\ quick_name(Registry, path) \in Names
    /\ \E left \in quick_add_aborted(World, path) : Finish(left)

\* r2 --restore <file> <generation> [-n], run to its end or aborted
RestoreAborted ==
  \E name \in Names, gen \in Gens, backup_first \in BOOLEAN :
    /\ MayRunCrash
    /\ \E left \in restore_aborted(World, name, gen, backup_first) : Finish(left)

\* r2 --prune <file>, run to its end or aborted
PruneAborted ==
  \E name \in Names :
    /\ MayRunCrash
    /\ \E left \in prune_aborted(World, name, FALSE) : Finish(left)

\* remove_file(<file>), run to its end or aborted
RemoveAborted ==
  \E name \in Names :
    /\ MayRunCrash
    /\ \E left \in remove_file_aborted(World, name) : Finish(left)

NextCrash ==
  \/ InitCrash
  \/ GarbageCollectCrash
  \/ AddAborted
  \/ QuickAddAborted
  \/ RestoreAborted
  \/ PruneAborted
  \/ RemoveAborted
  \/ UserEdit
  \/ UserDelete

SpecCrash == Init /\ [][NextCrash]_vars

(***************************************************************************)
(* Two invocations at the same time, on the same storage root.  Nothing in *)
(* the program locks the Registry or the store: the steps of two processes *)
(* interleave.  The steps of add_file are the load (with the tests that    *)
(* read the Registry), one step of build_generation's loop for each Entry, *)
(* and the save; the steps of garbage_collect are the load, the listing of *)
(* the store (os.listdir, at the start of the loop) and one unlink for     *)
(* each listed file that the loaded Registry does not reference.           *)
(***************************************************************************)
AllIdle == \A p \in Procs : running[p].pc = "idle"

AllDone == \A p \in Procs : running[p].pc = "done"

MayRunRace == AllIdle /\ invocations < MaxRaceInvocations

\* r2 --init, alone
InitRace ==
  /\ MayRunRace
  /\ Finish(init(World).w)

\* r2 --add notes <path>, alone
AddRace ==
  \E path \in UserPaths :
    /\ MayRunRace
    /\ Finish(add_file(World, Notes, path).w)

\* The user writes a live file while no invocation is in progress.
EditRace ==
  /\ AllIdle
  /\ UserEdit

\* add_file, lines 112-119: the path is tested, the Registry loaded, a new
\* name given its default Entry, a tracked one compared with its latest
\* generation; the process goes on to build, or ends here
BeginAdd(p) ==
  \E name \in UserNames, path \in UserPaths :
    LET out == add_file(World, name, path).out
        defs == load_defs(World)
        updated == IF Tracked(defs, name) THEN defs
                   ELSE Append(defs, get_default_def(name, path))
    IN /\ running[p].pc = "idle"
       /\ running' = [running EXCEPT ![p] =
            IF out = "Added"
            THEN [Idle EXCEPT !.pc = "build", !.op = "add", !.name = name,
                              !.path = path, !.loaded = defs, !.defs = updated,
                              !.i = 1]
            ELSE [Idle EXCEPT !.pc = "done", !.op = "add", !.name = name,
                              !.path = path, !.out = out]]
       /\ UNCHANGED <<r2dir, files, store, invocations>>

\* build_generation, one turn of its loop: the Entry's file is hashed, the
\* generation recorded in the defs the process holds, the blob copied
BuildStep(p) ==
  LET me == running[p]
      file_info == me.defs[me.i]
      next_pc == IF me.i = Len(me.defs) THEN "save" ELSE "build"
  IN /\ me.pc = "build"
     /\ IF ~Exists(World, file_info.path)
        THEN /\ running' = [running EXCEPT ![p].i = me.i + 1, ![p].pc = next_pc]
             /\ UNCHANGED store
        ELSE LET hash_value == hash_file(World, file_info.path)
             IN /\ running' = [running EXCEPT
                                 ![p].defs[me.i] = build_entry(file_info, hash_value),
                                 ![p].i = me.i + 1,
                                 ![p].pc = next_pc]
                /\ store' = copy_to_store(World, hash_value, file_info.path).store
     /\ UNCHANGED <<r2dir, files, invocations>>

\* add_file, lines 121-122: the defs the process holds are written over the
\* Registry document
SaveStep(p) ==
  /\ running[p].pc = "save"
  /\ files' = file_overwrite(World, running[p].defs).files
  /\ running' = [running EXCEPT ![p].pc = "done", ![p].out = "Added"]
  /\ UNCHANGED <<r2dir, store, invocations>>

\* garbage_collect, lines 189-192: the Registry is loaded and the hashes it
\* references are collected
BeginGc(p) ==
  /\ running[p].pc = "idle"
  /\ running' = [running EXCEPT ![p] =
       IF LoadError(World) # ""
       THEN [Idle EXCEPT !.pc = "done", !.op = "gc", !.out = LoadError(World)]
       ELSE [Idle EXCEPT !.pc = "list", !.op = "gc",
                         !.loaded = load_defs(World),
                         !.valid = valid_hashes(load_defs(World))]]
  /\ UNCHANGED <<r2dir, files, store, invocations>>

\* garbage_collect, line 195: STORE.iterdir() lists the store
ListStep(p) ==
  LET unused == (DOMAIN store) \ running[p].valid
  IN /\ running[p].pc = "list"
     /\ running' = [running EXCEPT
                      ![p].todo = unused,
                      ![p].pc = IF unused = {} THEN "done" ELSE "unlink",
                      ![p].out = IF unused = {} THEN "Garbage collection complete"
                                 ELSE ""]
     /\ UNCHANGED <<r2dir, files, store, invocations>>

\* garbage_collect, lines 196-198: one listed file the loaded Registry does
\* not reference is unlinked
UnlinkStep(p) ==
  \E h \in running[p].todo :
    LET left == running[p].todo \ {h}
    IN /\ running[p].pc = "unlink"
       /\ store' = [x \in (DOMAIN store) \ {h} |-> store[x]]
       /\ running' = [running EXCEPT
                        ![p].todo = left,
                        ![p].deleted = running[p].deleted \cup {h},
                        ![p].pc = IF left = {} THEN "done" ELSE "unlink",
                        ![p].out = IF left = {} THEN "Garbage collection complete"
                                   ELSE ""]
       /\ UNCHANGED <<r2dir, files, invocations>>

\* Process 1 runs an add, process 2 an add or a garbage collection.
NextRace ==
  \/ InitRace
  \/ AddRace
  \/ EditRace
  \/ \E p \in Procs : BeginAdd(p)
  \/ \E p \in Procs : BuildStep(p)
  \/ \E p \in Procs : SaveStep(p)
  \/ BeginGc(2)
  \/ ListStep(2)
  \/ UnlinkStep(2)

SpecRace == Init /\ [][NextRace]_vars

(***************************************************************************)
(* The properties.  A property of one operation is stated of the operation *)
(* applied, with every argument, to every file system the program can      *)
(* leave: World is the file system before, r.w the one after, r.out what   *)
(* the operation returned.                                                 *)
(***************************************************************************)
Max(S) == CHOOSE x \in S : \A y \in S : y <= x

GenNumbers(file_info) == { IntOf(key) : key \in DOMAIN file_info.generations }

\* The Registry a file system holds.
RegistryOf(w) == IF LoadError(w) = "" THEN load_defs(w) ELSE <<>>

\* C1: every hash in any Entry's generations map of the persisted Registry
\* names a blob that exists in the ContentStore.
C1_ReferentialIntegrity ==
  \A h \in valid_hashes(Registry) : h \in DOMAIN store

\* C2: for every Entry of the Registry, latest is the maximum key of its
\* generations map, or 0 if the map is empty.
C2_LatestIsMaxGeneration ==
  \A i \in 1..Len(Registry) :
    LET file_info == Registry[i]
    IN IF DOMAIN file_info.generations = {}
       THEN file_info.latest = 0
       ELSE file_info.latest = Max(GenNumbers(file_info))

\* C2's case: an Entry with two generations built, and one that prune has
\* cut down to its latest generation alone.
C2_Witness ==
  /\ \E i \in 1..Len(Registry) : GenNumbers(Registry[i]) = {1, 2}
  /\ \E i \in 1..Len(Registry) : GenNumbers(Registry[i]) = {2}

\* C3: garbage_collect, from any state, deletes no referenced blob, deletes
\* every unreferenced one and leaves the Registry as it is; afterwards the
\* blobs of the store are exactly the hashes the Registry references.
C3_GcExact ==
  LET r == garbage_collect(World)
  IN r.out = "Garbage collection complete" =>
       /\ \A h \in DOMAIN store :
            h \in DOMAIN r.w.store <=> h \in valid_hashes(Registry)
       /\ \A h \in DOMAIN r.w.store : h \in DOMAIN store /\ r.w.store[h] = store[h]
       /\ r.w.files = files
       /\ DOMAIN r.w.store = valid_hashes(Registry)

\* C4: init on a storage root that does not exist succeeds and leaves a
\* Registry whose only Entry is "defs", of the Registry document, with
\* latest = 1 and generations = {1: h}, the blob h in the store; init on an
\* existing storage root fails with AlreadyExists and changes nothing.
C4_InitTracksDefs ==
  LET r == init(World)
      defs == RegistryOf(r.w)
  IN IF ~r2dir
     THEN /\ r.out = "Initiated"
          /\ Len(defs) = 1
          /\ defs[1].name = DefsName
          /\ defs[1].path = DefsFile
          /\ defs[1].latest = 1
          /\ DOMAIN defs[1].generations = {Str(1)}
          /\ defs[1].generations[Str(1)] \in DOMAIN r.w.store
     ELSE /\ r.out = "fatal: already exists"
          /\ r.w = World

\* C5: add(name, path) builds a generation for the Entry called name alone:
\* every other tracked Entry has the same path, latest and generations after
\* the add as before it.
C5_AddLeavesOtherEntries ==
  \A name \in Names, path \in Paths :
    LET r == add_file(World, name, path)
        after == RegistryOf(r.w)
    IN r.out = "Added" =>
         \A i \in 1..Len(Registry) :
           Registry[i].name # name =>
             /\ Tracked(after, Registry[i].name)
             /\ EntryOf(after, Registry[i].name) = Registry[i]

\* C6: an add that builds (the name is new, or its live file differs from the
\* latest generation) raises the Entry's latest by exactly 1 (to 1 for a new
\* name), records the hash of the live file at the new latest, leaves every
\* earlier generation record as it was, and the blob of that hash is in the
\* store, holding the bytes of the live file.
C6_AddBuildsOneGeneration ==
  \A name \in Names, path \in Paths :
    LET r == add_file(World, name, path)
        before == IF Tracked(Registry, name) THEN EntryOf(Registry, name)
                  ELSE get_default_def(name, path)
        after == EntryOf(RegistryOf(r.w), name)
        live == files[before.path]
    IN r.out = "Added" =>
         /\ ~Tracked(Registry, name) => after.latest = 1
         /\ after.latest = before.latest + 1
         /\ after.path = before.path
         /\ DOMAIN after.generations
              = (DOMAIN before.generations) \cup {Str(after.latest)}
         /\ Str(after.latest) \notin DOMAIN before.generations
         /\ after.generations[Str(after.latest)] = Sha256(live)
         /\ \A key \in DOMAIN before.generations :
              after.generations[key] = before.generations[key]
         /\ Sha256(live) \in DOMAIN r.w.store
         /\ r.w.store[Sha256(live)] = live

\* C6's case: two adds of "notes" have built, the second after its live file
\* changed.
C6_Witness ==
  /\ Tracked(Registry, PlainName("notes"))
  /\ LET notes == EntryOf(Registry, PlainName("notes"))
     IN /\ notes.latest = 2
        /\ DOMAIN notes.generations = {Str(1), Str(2)}
        /\ notes.generations[Str(1)] # notes.generations[Str(2)]
        /\ notes.generations[Str(2)] \in DOMAIN store

\* The precondition of C7: name is tracked and its live file has the hash
\* recorded at the Entry's latest generation.
Unchanged(w, name) ==
  /\ LoadError(w) = ""
  /\ Tracked(load_defs(w), name)
  /\ diff(w, name, get_latest_gen(w, name)) = "match"

\* C7: add of a tracked name whose live file has the hash recorded at the
\* Entry's latest generation returns "Not added" and leaves the Registry and
\* the store as they are (so repeating it grows nothing).
C7_UnchangedAddIsNoOp ==
  \A name \in Names, path \in Paths :
    (Unchanged(World, name) /\ Exists(World, path)) =>
      LET r == add_file(World, name, path)
      IN /\ r.out = "Not added"
         /\ r.w = World
         /\ Unchanged(r.w, name)

\* C7's case: "notes" has two generations and its live file is as the latest
\* one recorded it.
C7_Witness ==
  /\ Unchanged(World, PlainName("notes"))
  /\ EntryOf(Registry, PlainName("notes")).latest >= 2

\* C8: prune(name) of a tracked name succeeds and leaves that Entry with the
\* one key latest, mapped to the hash it had, latest as it was, every other
\* Entry as it was, and no blob in the store that only discarded generations
\* referenced; prune of an untracked name fails and changes nothing.
C8_PruneKeepsLatest ==
  \A name \in Names :
    LoadError(World) = "" =>
      LET r == prune(World, name, FALSE)
          after == RegistryOf(r.w)
      IN IF Tracked(Registry, name)
         THEN /\ r.out = "Pruned"
              /\ Len(after) = Len(Registry)
              /\ \A i \in 1..Len(Registry) :
                   IF Registry[i].name = name
                   THEN /\ after[i].latest = Registry[i].latest
                        /\ after[i].path = Registry[i].path
                        /\ DOMAIN after[i].generations = {Str(Registry[i].latest)}
                        /\ after[i].generations[Str(Registry[i].latest)]
                             = Registry[i].generations[Str(Registry[i].latest)]
                   ELSE after[i] = Registry[i]
              /\ \A h \in DOMAIN store :
                   h \in DOMAIN r.w.store <=> h \in valid_hashes(after)
         ELSE /\ r.out = "fatal: File does not exist"
              /\ r.w = World

\* C9: for every tracked name, every generation g recorded for it and either
\* value of backup_first, diff(name, g) right after restore(name, g) says the
\* live file matches generation g.
C9_RestoreThenDiffMatches ==
  \A name \in Names, gen \in Gens, backup_first \in BOOLEAN :
    LET r == restore(World, name, gen, backup_first)
    IN r.out = "Restored" => diff(r.w, name, gen) = "match"

\* C10: after restore(name, g, backup_first = TRUE) the bytes the live file
\* had before the restore are some generation of the Entry in the persisted
\* Registry, with their blob in the store; a generation was added for them
\* exactly when they differed from the latest generation.
C10_BackupBeforeRestore ==
  \A name \in Names, gen \in Gens :
    LET r == restore(World, name, gen, TRUE)
        before == EntryOf(Registry, name)
        live == Sha256(files[before.path])
        after == RegistryOf(r.w)
    IN r.out = "Restored" =>
         /\ Tracked(after, name)
         /\ live \in Range(EntryOf(after, name).generations)
         /\ live \in DOMAIN r.w.store
         /\ (DOMAIN EntryOf(after, name).generations # DOMAIN before.generations)
              <=> (live # before.generations[Str(before.latest)])

\* The blobs of a store that hold the bytes c.
BlobsOf(w, c) == { h \in DOMAIN w.store : w.store[h] = c }

FreshlyInitialised(w) ==
  LET made == init([w EXCEPT !.r2dir = FALSE,
                             !.files = [w.files EXCEPT ![DefsFile] = NoFile],
                             !.store = EmptyDict]).w
  IN /\ w.r2dir
     /\ w.files[DefsFile] = made.files[DefsFile]
     /\ w.store = made.store

\* The user writes text into the file at path.
Edited(w, path, text) ==
  [w EXCEPT !.files = [w.files EXCEPT ![path] = UserContent(text)]]

\* C12: from a freshly initialised store, the add of one new name leaves
\* exactly one blob in the store, and a second add of the same name after its
\* content changed leaves exactly two (as many blobs as distinct contents the
\* user's adds have snapshotted).
C12_BlobCountAfterAdds ==
  \A name \in Names \ {DefsName}, path \in UserPaths, text \in Texts :
    LET r1 == add_file(World, name, path)
        r2 == add_file(Edited(r1.w, path, text), name, path)
    IN (FreshlyInitialised(World) /\ Exists(World, path)) =>
         /\ r1.out = "Added"
         /\ Cardinality(DOMAIN r1.w.store) = 1
         /\ UserContent(text) # files[path] =>
              /\ r2.out = "Added"
              /\ Cardinality(DOMAIN r2.w.store) = 2

\* The Entry e as it was, but for generations built since: same path, latest
\* not lower, every generation record of before still there with its hash.
Preserved(before, e) ==
  /\ e.path = before.path
  /\ e.latest >= before.latest
  /\ \A key \in DOMAIN before.generations :
       key \in DOMAIN e.generations /\ e.generations[key] = before.generations[key]

\* What C13 says of one quick_add: the name chosen is not tracked, a new Entry
\* of that name and of the file is created, and every Entry of before is
\* still there, preserved.
QuickAddIsSafe(w, path, r) ==
  LET defs == RegistryOf(w)
      new_name == quick_name(defs, path)
      after == RegistryOf(r.w)
  IN /\ ~Tracked(defs, new_name)
     /\ r.out = "Added file"
     /\ Len(after) = Len(defs) + 1
     /\ Tracked(after, new_name)
     /\ EntryOf(after, new_name).path = path
     /\ EntryOf(after, new_name).latest = 1
     /\ \A i \in 1..Len(defs) :
          /\ after[i].name = defs[i].name
          /\ Preserved(defs[i], after[i])

\* C13: for every Registry and every existing file, the name quick_add chooses
\* is not tracked when it is chosen, quick_add creates a new Entry and replaces
\* or resets no Entry; and two quick_adds of two files with the same base name
\* in different directories give two distinct tracked names, the generation
\* records of the first all preserved.
C13_QuickAddNoCollision ==
  \A path1 \in UserPaths, path2 \in UserPaths :
    LET r1 == quick_add(World, path1)
        r2 == quick_add(r1.w, path2)
        name1 == quick_name(Registry, path1)
        name2 == quick_name(RegistryOf(r1.w), path2)
    IN (LoadError(World) = "" /\ Exists(World, path1) /\ Exists(World, path2)) =>
         /\ QuickAddIsSafe(World, path1, r1)
         /\ QuickAddIsSafe(r1.w, path2, r2)
         /\ name1 # name2
         /\ Tracked(RegistryOf(r2.w), name1)
         /\ Tracked(RegistryOf(r2.w), name2)
         /\ Preserved(EntryOf(RegistryOf(r1.w), name1), EntryOf(RegistryOf(r2.w), name1))

\* C13's case: /a/notes.txt and /b/notes.txt are tracked under two names, the
\* second one numbered, the first with its generation 1 under a later one;
\* and the suffix search has gone past a numbered name that was taken.
C13_Witness ==
  /\ Tracked(Registry, PlainName("notes"))
  /\ Tracked(Registry, NumberedName("notes", 1, ".txt"))
  /\ Tracked(Registry, NumberedName("notes", 2, ".txt"))
  /\ EntryOf(Registry, PlainName("notes")).path
       # EntryOf(Registry, NumberedName("notes", 1, ".txt")).path
  /\ DOMAIN EntryOf(Registry, PlainName("notes")).generations = {Str(1), Str(2), Str(3)}

\* C14: remove of a tracked name deletes that Entry and no other, every
\* other Entry unchanged, and collects garbage: afterwards a blob only the
\* removed Entry referenced is gone and every blob a remaining Entry
\* references is present; remove of an untracked name fails and leaves the
\* Registry and the store as they were.
C14_RemoveDeletesOneEntry ==
  \A name \in Names :
    LoadError(World) = "" =>
      LET r == remove_file(World, name)
          after == RegistryOf(r.w)
      IN IF Tracked(Registry, name)
         THEN /\ r.out = "Removed"
              /\ after = Without(Registry, name)
              /\ ~Tracked(after, name)
              /\ \A i \in 1..Len(Registry) :
                   Registry[i].name # name =>
                     /\ Tracked(after, Registry[i].name)
                     /\ EntryOf(after, Registry[i].name) = Registry[i]
              /\ \A h \in Range(EntryOf(Registry, name).generations) :
                   h \notin valid_hashes(after) => h \notin DOMAIN r.w.store
              /\ \A h \in valid_hashes(after) : h \in DOMAIN r.w.store
         ELSE /\ r.out = "fatal: File does not exist"
              /\ r.w = World

\* The file systems one invocation may leave, of any operation with any
\* arguments, run on the file system w.
Outcomes(w) ==
  { add_file(w, name, path).w : name \in Names \cup UserNames, path \in Paths }
    \cup { quick_add(w, path).w : path \in UserPaths }
    \cup { restore(w, name, gen, backup_first).w :
             name \in Names, gen \in Gens, backup_first \in BOOLEAN }
    \cup { prune(w, name, FALSE).w : name \in Names }
    \cup { prune(w, NoName, TRUE).w, garbage_collect(w).w, install_file(w, Notes).w }
    \cup { remove_file(w, name).w : name \in Names }
    \cup { link_file(w, name, target).w :
             name \in Names, target \in { p \in UserPaths : ~Dangling(w, p) } }

\* C15: in every state the bytes of the blob named h hash to h, and no
\* operation changes the bytes of a blob that is there before and after it
\* (user edits fall between invocations and replace the file they write).
C15_BlobsImmutable ==
  /\ \A h \in DOMAIN store : Sha256(store[h]) = h
  /\ \A after \in Outcomes(World) :
       \A h \in (DOMAIN store) \cap (DOMAIN after.store) : after.store[h] = store[h]

\* C16: across any one operation after which a name is still tracked (a
\* restore of "defs" included), the latest of its Entry in the persisted
\* Registry does not decrease and no generation number recorded for it is
\* bound to another hash.
C16_MonotonicGenerations ==
  \A after \in Outcomes(World) :
    \A i \in 1..Len(Registry) :
      Tracked(RegistryOf(after), Registry[i].name) =>
        LET before == Registry[i]
            e == EntryOf(RegistryOf(after), before.name)
        IN /\ e.latest >= before.latest
           /\ \A key \in (DOMAIN before.generations) \cap (DOMAIN e.generations) :
                e.generations[key] = before.generations[key]

\* C17: restore of a tracked name at a generation that its Entry does not
\* record fails, with either value of backup_first, and leaves the Registry,
\* the store and the live file as they were (no backup generation is built
\* before the failure).
C17_RestoreAbsentGeneration ==
  \A name \in Names, gen \in Gens, backup_first \in BOOLEAN :
    LET r == restore(World, name, gen, backup_first)
    IN (LoadError(World) = "" /\ Tracked(Registry, name)
          /\ ~HasGen(Registry, name, gen)) =>
         /\ r.out # "Restored"
         /\ r.w = World

\* Every hash the Registry of w references names a blob of its store.
Referenced(w) == \A h \in valid_hashes(RegistryOf(w)) : h \in DOMAIN w.store

\* The file systems one mutating invocation (add, quick_add, restore, prune,
\* remove) may leave when it runs on w and is aborted between two steps.
AbortedOutcomes(w) ==
  UNION { add_file_aborted(w, name, path) : name \in Names, path \in Paths }
    \cup UNION { quick_add_aborted(w, path) : path \in UserPaths }
    \cup UNION { UNION { restore_aborted(w, name, gen, backup_first) :
                           gen \in Gens, backup_first \in BOOLEAN } : name \in Names }
    \cup UNION { prune_aborted(w, name, FALSE) : name \in Names }
    \cup prune_aborted(w, NoName, TRUE)
    \cup UNION { remove_file_aborted(w, name) : name \in Names }

\* C18: when one mutating invocation runs on a file system whose Registry
\* references existing blobs only and is aborted between any two of its
\* steps, the persisted Registry references no hash whose blob is missing,
\* and the worst that is left is unreferenced blobs, which a later
\* garbage_collect removes.
C18_CrashOrdering ==
  (LoadError(World) = "" /\ Referenced(World)) =>
    \A left \in AbortedOutcomes(World) :
      /\ Referenced(left)
      /\ garbage_collect(left).out = "Garbage collection complete"
      /\ DOMAIN garbage_collect(left).w.store = valid_hashes(RegistryOf(left))

\* C19: when a garbage collection and an add have run at the same time,
\* their steps interleaved, and both have finished, no Entry of the persisted
\* Registry references a hash whose blob the garbage collection deleted.
C19_GcSafeWhileAdding ==
  (AllDone /\ running[1].op = "add" /\ running[2].op = "gc") =>
    \A h \in valid_hashes(Registry) :
      ~(h \in running[2].deleted /\ h \notin DOMAIN store)

\* Two adds of two different names, new to the Registry each of them loaded,
\* have both run to their end and reported "Added".
TwoAddsDone ==
  /\ AllDone
  /\ \A p \in Procs :
       /\ running[p].op = "add"
       /\ running[p].out = "Added"
       /\ ~Tracked(running[p].loaded, running[p].name)
  /\ running[1].name # running[2].name

\* C20: nothing keeps the save of one add from overwriting the save of the
\* other: when two adds of two different new names have both reported
\* success, the persisted Registry is the defs that one of the two processes
\* held, whole, and when that process loaded the Registry before the other
\* one saved, the other one's Entry is not in the persisted Registry (its
\* update is lost).
C20_LostUpdate ==
  TwoAddsDone =>
    \E p \in Procs :
      LET q == 3 - p
      IN /\ Registry = running[p].defs
         /\ Tracked(Registry, running[p].name)
         /\ ~Tracked(running[p].loaded, running[q].name)
              => ~Tracked(Registry, running[q].name)

\* C20's case: both adds reported success and the persisted Registry holds
\* the Entry of one of them only.
C20_Witness ==
  /\ TwoAddsDone
  /\ \E p \in Procs :
       /\ Tracked(Registry, running[p].name)
       /\ ~Tracked(Registry, running[3 - p].name)

====
